---- MODULE Spec2Model ----
(***************************************************************************)
(* Model of src/direct_loader.py: the reading synthesizer generate_reading *)
(* and the batch loader load_data.                                         *)
(*                                                                         *)
(* Time is counted in whole minutes.  A datetime is the number of minutes  *)
(* since midnight of day 0, so timestamp.hour is (t \div 60) % 24 and      *)
(* timedelta(days=d) is d * 1440.                                          *)
(*                                                                         *)
(* A row of the batch is the pair <<timestamp, meter_id>> of the reading   *)
(* tuple: the other five fields are random draws (and values derived from  *)
(* them) that no statement of load_data ever reads.  The full power draw   *)
(* of generate_reading is modelled by GenerateReading below.               *)
(***************************************************************************)
EXTENDS Integers, Sequences, FiniteSets, TLC

\* ---------------------------------------------------------------- bounds
MaxDays == 1
MaxMeters == 3
MaxBatch == 5

\* ------------------------------------------------------ program constants
MinutesPerDay == 1440
interval == 5
readings_per_day == 288
IdWidth == 10

\* The instants datetime.now() returns in the model (minutes since midnight
\* of day 0): 11:23 of day 3, which is no multiple of the interval.  load_data
\* only ever compares and adds to it.
NowSet == {5003}

VARIABLES
    args,            \* the parsed command line: days, meters, batch_size
    meters,          \* the list of meter identifiers (line 113)
    start_time,      \* line 117
    end_time,        \* line 116
    total_readings,  \* line 122, the reported figure
    batch,           \* the in-progress batch
    total_inserted,  \* the running total
    current_time,    \* the while loop's variable
    meter_ix,        \* how many meters the for loop has taken at current_time
    cursor,          \* rows handed to execute_values and not yet committed
    table,           \* the committed inserts, one entry per committed batch
    row_count,       \* the number of committed rows (SELECT COUNT(*), line 195)
    pc,              \* the position of load_data
    generated,       \* history: the number of readings generated so far
    timestamps,      \* history: the number of timestamps the loop has entered
    reading          \* the tuple generate_reading returned last

vars == <<args, meters, start_time, end_time, total_readings, batch,
          total_inserted, current_time, meter_ix, cursor, table, row_count,
          pc, generated, timestamps, reading>>

\* ------------------------------------------------------------- helpers

RECURSIVE Zeros(_)
Zeros(n) == IF n <= 0 THEN "" ELSE "0" \o Zeros(n - 1)

\* f"{i:010d}": the decimal digits of i, left-padded with zeros to width 10.
Format010d(i) ==
    LET s == ToString(i)
    IN  IF Len(s) >= IdWidth THEN s ELSE Zeros(IdWidth - Len(s)) \o s

\* Mutant of MeterIds: range(0, n), the identifiers 0..n-1.
MeterIds_FromZero(n) == [i \in 1..n |-> Format010d(i - 1)]

\* [f"{i:010d}" for i in range(1, n + 1)]
MeterIds(n) == [i \in 1..n |-> Format010d(i)]

\* timedelta(days=d) in minutes
TimedeltaDays(d) == d * MinutesPerDay

\* The row load_data appends for a reading: its timestamp and meter_id.
Row(meter_id, timestamp) == <<timestamp, meter_id>>

\* execute_values(cursor, "INSERT ... VALUES %s", rows): one bulk insert in
\* the connection's open transaction.
ExecuteValues(rows) == cursor' = cursor \o rows

\* Mutant of ConnCommit: the commit left out of the loop.
ConnCommit_Missing == UNCHANGED <<table, row_count, cursor>>

\* conn.commit(): the open transaction's rows become durable.
ConnCommit ==
    /\ table' = Append(table, cursor)
    /\ row_count' = row_count + Len(cursor)
    /\ cursor' = <<>>

\* Mutant of LoopCond: current_time < end_time.
LoopCond_Exclusive(t, end) == t < end

\* line 142: current_time <= end_time
LoopCond(t, end) == t <= end

\* Mutant of BatchFull: len(batch) > batch_size.
BatchFull_Strict(b, batch_size) == Len(b) > batch_size

\* line 149: len(batch) >= batch_size
BatchFull(b, batch_size) == Len(b) >= batch_size

\* ---------------------------------------------------------------- Init

NoReading == [timestamp |-> -1, meter_id |-> "", power |-> -1]

\* load_data up to line 141, for a command line with days >= 0,
\* meters >= 0 and batch_size >= 1.
Init ==
    /\ args \in [days : 0..MaxDays, meters : 0..MaxMeters, batch_size : 1..MaxBatch]
    /\ meters = MeterIds(args.meters)
    /\ end_time \in NowSet
    /\ start_time = end_time - TimedeltaDays(args.days)
    /\ total_readings = args.meters * readings_per_day * args.days
    /\ batch = <<>>
    /\ total_inserted = 0
    /\ current_time = start_time
    /\ meter_ix = 0
    /\ cursor = <<>>
    /\ table = <<>>
    /\ row_count = 0
    /\ pc = "while"
    /\ generated = 0
    /\ timestamps = 0
    /\ reading = NoReading

\* ------------------------------------------------------------- actions

\* line 142: while current_time <= end_time
WhileTest ==
    /\ pc = "while"
    /\ IF LoopCond(current_time, end_time)
       THEN /\ pc' = "for"
            /\ meter_ix' = 0
            /\ timestamps' = timestamps + 1
       ELSE /\ pc' = "rest"
            /\ UNCHANGED <<meter_ix, timestamps>>
    /\ UNCHANGED <<args, meters, start_time, end_time, total_readings, batch,
                   total_inserted, current_time, cursor, table, row_count, generated, reading>>

\* line 143: for meter_id in meters, and line 171 when the list is exhausted
ForNext ==
    /\ pc = "for"
    /\ IF meter_ix < Len(meters)
       THEN /\ meter_ix' = meter_ix + 1
            /\ pc' = "gen"
            /\ UNCHANGED current_time
       ELSE /\ current_time' = current_time + interval
            /\ pc' = "while"
            /\ UNCHANGED meter_ix
    /\ UNCHANGED <<args, meters, start_time, end_time, total_readings, batch,
                   total_inserted, cursor, table, row_count, generated, timestamps, reading>>

\* lines 145-149: generate the reading, append it, test whether the batch is full
GenerateAppend ==
    /\ pc = "gen"
    /\ batch' = Append(batch, Row(meters[meter_ix], current_time))
    /\ generated' = generated + 1
    /\ pc' = IF BatchFull(batch', args.batch_size) THEN "insert" ELSE "for"
    /\ UNCHANGED <<args, meters, start_time, end_time, total_readings,
                   total_inserted, current_time, meter_ix, cursor, table, row_count,
                   timestamps, reading>>

\* lines 150-156: execute_values(cursor, ..., batch)
Insert ==
    /\ pc = "insert"
    /\ ExecuteValues(batch)
    /\ pc' = "commit"
    /\ UNCHANGED <<args, meters, start_time, end_time, total_readings, batch,
                   total_inserted, current_time, meter_ix, table, row_count, generated,
                   timestamps, reading>>

\* line 157: conn.commit()
Commit ==
    /\ pc = "commit"
    /\ ConnCommit
    /\ pc' = "count"
    /\ UNCHANGED <<args, meters, start_time, end_time, total_readings, batch,
                   total_inserted, current_time, meter_ix, generated,
                   timestamps, reading>>

\* line 158: total_inserted += len(batch)
Count ==
    /\ pc = "count"
    /\ total_inserted' = total_inserted + Len(batch)
    /\ pc' = "progress"
    /\ UNCHANGED <<args, meters, start_time, end_time, total_readings, batch,
                   current_time, meter_ix, cursor, table, row_count, generated,
                   timestamps, reading>>

\* lines 161-167: the three divisions of the progress update.  rate and
\* remaining are guarded (elapsed > 0, rate > 0); pct divides by
\* total_readings unguarded and raises ZeroDivisionError when it is 0.
ProgressRaises == total_readings = 0

Progress ==
    /\ pc = "progress"
    /\ pc' = IF ProgressRaises THEN "ZeroDivisionError" ELSE "reset"
    /\ UNCHANGED <<args, meters, start_time, end_time, total_readings, batch,
                   total_inserted, current_time, meter_ix, cursor, table, row_count,
                   generated, timestamps, reading>>

\* line 169: batch = []
Reset ==
    /\ pc = "reset"
    /\ batch' = <<>>
    /\ pc' = "for"
    /\ UNCHANGED <<args, meters, start_time, end_time, total_readings,
                   total_inserted, current_time, meter_ix, cursor, table, row_count,
                   generated, timestamps, reading>>

\* Mutant of RestTest: the final insert made whether or not rows remain.
RestTest_Always ==
    /\ pc = "rest"
    /\ pc' = "rest_insert"
    /\ UNCHANGED <<args, meters, start_time, end_time, total_readings, batch,
                   total_inserted, current_time, meter_ix, cursor, table, row_count,
                   generated, timestamps, reading>>

\* line 174: if batch
RestTest ==
    /\ pc = "rest"
    /\ pc' = IF batch # <<>> THEN "rest_insert" ELSE "done"
    /\ UNCHANGED <<args, meters, start_time, end_time, total_readings, batch,
                   total_inserted, current_time, meter_ix, cursor, table, row_count,
                   generated, timestamps, reading>>

\* lines 175-181
RestInsert ==
    /\ pc = "rest_insert"
    /\ ExecuteValues(batch)
    /\ pc' = "rest_commit"
    /\ UNCHANGED <<args, meters, start_time, end_time, total_readings, batch,
                   total_inserted, current_time, meter_ix, table, row_count, generated,
                   timestamps, reading>>

\* line 182
RestCommit ==
    /\ pc = "rest_commit"
    /\ ConnCommit
    /\ pc' = "rest_count"
    /\ UNCHANGED <<args, meters, start_time, end_time, total_readings, batch,
                   total_inserted, current_time, meter_ix, generated,
                   timestamps, reading>>

\* Mutant of RestCount: total_inserted += batch_size.
RestCount_BatchSize ==
    /\ pc = "rest_count"
    /\ total_inserted' = total_inserted + args.batch_size
    /\ pc' = "done"
    /\ UNCHANGED <<args, meters, start_time, end_time, total_readings, batch,
                   current_time, meter_ix, cursor, table, row_count, generated,
                   timestamps, reading>>

\* line 183
RestCount ==
    /\ pc = "rest_count"
    /\ total_inserted' = total_inserted + Len(batch)
    /\ pc' = "done"
    /\ UNCHANGED <<args, meters, start_time, end_time, total_readings, batch,
                   current_time, meter_ix, cursor, table, row_count, generated,
                   timestamps, reading>>

Next ==
    \/ WhileTest
    \/ ForNext
    \/ GenerateAppend
    \/ Insert
    \/ Commit
    \/ Count
    \/ Progress
    \/ Reset
    \/ RestTest
    \/ RestInsert
    \/ RestCommit
    \/ RestCount

Spec == Init /\ [][Next]_vars


\* ------------------------------------------- failures (section 5, 7)

Failed == {"sink_error", "terminated"}
Finished == {"done", "ZeroDivisionError"} \cup Failed

\* execute_values or conn.commit raises (lines 150-157, 175-182): nothing
\* catches it, load_data ends, and the connection's open transaction is
\* rolled back with the connection.
SinkFails ==
    /\ pc \in {"insert", "commit", "rest_insert", "rest_commit"}
    /\ pc' = "sink_error"
    /\ cursor' = <<>>
    /\ UNCHANGED <<args, meters, start_time, end_time, total_readings, batch,
                   total_inserted, current_time, meter_ix, table, row_count,
                   generated, timestamps, reading>>

\* The process is terminated from outside at any point of load_data.
Terminated ==
    /\ pc \notin Finished
    /\ pc' = "terminated"
    /\ cursor' = <<>>
    /\ UNCHANGED <<args, meters, start_time, end_time, total_readings, batch,
                   total_inserted, current_time, meter_ix, table, row_count,
                   generated, timestamps, reading>>

NextFail ==
    \/ Next
    \/ SinkFails
    \/ Terminated

SpecFail == Init /\ [][NextFail]_vars

\* ------------------------------------------------- generate_reading

\* timestamp.hour
Hour(timestamp) == (timestamp \div 60) % 24

\* Mutant of Band: the night branch tests hour < 5.
Band_NightShort(hour) ==
    IF (6 <= hour /\ hour <= 9) \/ (18 <= hour /\ hour <= 22) THEN "peak"
    ELSE IF 23 <= hour \/ hour < 5 THEN "night"
    ELSE "daytime"

\* lines 67-72: the band the if / elif / else chain selects
Band(hour) ==
    IF (6 <= hour /\ hour <= 9) \/ (18 <= hour /\ hour <= 22) THEN "peak"
    ELSE IF 23 <= hour \/ hour <= 5 THEN "night"
    ELSE "daytime"

\* lines 68, 70, 72: the arguments of random.uniform in each branch
UniformArgs(band) ==
    CASE band = "peak" -> <<1500, 3000>>
      [] band = "night" -> <<200, 500>>
      [] band = "daytime" -> <<800, 1500>>

\* random.uniform(a, b): any value between a and b, here the whole numbers
Uniform(a, b) == a..b

\* The timestamps generate_reading is called with: the first and the last
\* minute of every hour of days 0..MaxDays.
ReadingTimes ==
    {d * MinutesPerDay + h * 60 + m : d \in 0..MaxDays, h \in 0..23, m \in {0, 59}}

InitReading ==
    /\ args = [days |-> 0, meters |-> MaxMeters, batch_size |-> 1]
    /\ meters = MeterIds(MaxMeters)
    /\ meter_ix \in 1..MaxMeters
    /\ current_time \in ReadingTimes
    /\ start_time = current_time
    /\ end_time = current_time
    /\ total_readings = 0
    /\ batch = <<>>
    /\ total_inserted = 0
    /\ cursor = <<>>
    /\ table = <<>>
    /\ row_count = 0
    /\ pc = "generate_reading"
    /\ generated = 0
    /\ timestamps = 0
    /\ reading = NoReading

\* lines 64-80: generate_reading(meters[meter_ix], current_time)
GenerateReading ==
    /\ pc = "generate_reading"
    /\ \E base_power \in Uniform(UniformArgs(Band(Hour(current_time)))[1],
                                 UniformArgs(Band(Hour(current_time)))[2]) :
           reading' = [timestamp |-> current_time,
                       meter_id |-> meters[meter_ix],
                       power |-> base_power]
    /\ pc' = "returned"
    /\ UNCHANGED <<args, meters, start_time, end_time, total_readings, batch,
                   total_inserted, current_time, meter_ix, cursor, table,
                   row_count, generated, timestamps>>

NextReading == GenerateReading

SpecReading == InitReading /\ [][NextReading]_vars

\* =================================================================
\* Properties
\* =================================================================

\* The batches handed to the sink so far, in delivery order: the committed
\* ones and the one inserted and not yet committed.
Delivered == IF cursor = <<>> THEN table ELSE Append(table, cursor)

\* The concatenation of seqs[lo..hi].
RECURSIVE Concat(_, _, _)
Concat(seqs, lo, hi) ==
    IF lo > hi THEN <<>>
    ELSE IF lo = hi THEN seqs[lo]
    ELSE LET mid == (lo + hi) \div 2
         IN  Concat(seqs, lo, mid) \o Concat(seqs, mid + 1, hi)

\* ceil(a / b) for a >= 0, b > 0
CeilDiv(a, b) == (a + b - 1) \div b

\* The number of instants start_time, start_time + interval, ... <= end_time.
NumTimes ==
    IF end_time < start_time THEN 0
    ELSE ((end_time - start_time) \div interval) + 1

\* The cartesian sequence of (timestamp, meter) pairs, time outer, meter inner.
Cartesian ==
    [k \in 1..(NumTimes * args.meters) |->
        <<start_time + ((k - 1) \div args.meters) * interval,
          Format010d(((k - 1) % args.meters) + 1)>>]

\* C1: with batch_size >= 1, every delivered batch except possibly the last
\* has exactly batch_size rows, the last delivered one has 1..batch_size
\* rows, and nothing is delivered when no reading was generated.
C1_BatchSizes ==
    LET d == Delivered
    IN  /\ \A i \in 1..(Len(d) - 1) : Len(d[i]) = args.batch_size
        /\ Len(d) > 0 => Len(d[Len(d)]) \in 1..args.batch_size
        /\ generated = 0 => Len(d) = 0

\* A completed run whose last batch is a partial one after two full ones.
C1_Witness ==
    /\ pc = "done"
    /\ Len(table) >= 3
    /\ Len(table[Len(table)]) < args.batch_size
    /\ Len(table[1]) = args.batch_size

\* C2: on a completed run the delivered batches, concatenated in delivery
\* order, are exactly the cartesian sequence (time ascending from start_time
\* to end_time by the interval, meters 1..meter_count within each time):
\* every pair once, timestamps non-decreasing.
C2_CartesianOrder ==
    pc = "done" =>
        LET flat == Concat(table, 1, Len(table))
        IN  /\ flat = Cartesian
            /\ \A k \in 1..(Len(flat) - 1) : flat[k][1] <= flat[k + 1][1]
            /\ Cardinality({flat[k] : k \in 1..Len(flat)}) = Len(flat)
            /\ Len(flat) > 0 =>
                   /\ flat[1] = <<start_time, Format010d(1)>>
                   /\ flat[Len(flat)] = <<end_time, Format010d(args.meters)>>

\* A completed run of one day with several meters and a batch boundary
\* that falls inside a timestamp.
C2_Witness ==
    /\ pc = "done"
    /\ args.days = 1
    /\ args.meters = 3
    /\ args.batch_size = 2
    /\ Len(table) = 434

\* C3: a completed run generates meter_count * ceil((end - start)/interval + 1)
\* readings, that is meter_count * (288 * days + 1); the count follows the
\* time range and is not the reported total_readings.
C3_TotalReadings ==
    pc = "done" =>
        /\ generated = args.meters * (CeilDiv(end_time - start_time, interval) + 1)
        /\ generated = args.meters * (readings_per_day * args.days + 1)
        /\ timestamps = readings_per_day * args.days + 1
        /\ generated = total_readings + args.meters
        /\ args.meters > 0 => generated # total_readings

C3_Witness ==
    /\ pc = "done"
    /\ args.days = 1
    /\ args.meters = 3
    /\ generated = 867
    /\ total_readings = 864

\* C4: days=1, meters=2, batch_size=5: 288 timestamps, 576 readings,
\* delivered as 115 batches of 5 followed by one batch of 1.
C4_Scenario ==
    (pc = "done" /\ args = [days |-> 1, meters |-> 2, batch_size |-> 5]) =>
        /\ timestamps = 288
        /\ generated = 576
        /\ Len(table) = 116
        /\ \A i \in 1..115 : Len(table[i]) = 5
        /\ Len(table[116]) = 1

\* C5: days = 0: for every meter_count m >= 1 and batch_size >= 1 the run
\* produces one timestamp of readings, one per meter, all m of them
\* delivered, in exactly one batch when batch_size >= m.
C5_ZeroDays ==
    (args.days = 0 /\ args.meters >= 1 /\ pc \in {"done", "ZeroDivisionError"}) =>
        /\ timestamps = 1
        /\ generated = args.meters
        /\ row_count = args.meters
        /\ args.batch_size >= args.meters => Len(table) = 1

\* C6: the progress computation after an in-loop delivery changes nothing
\* of batch, total_inserted, current_time or the sink, and never aborts the
\* loop: the step after it is the reset of the batch.
C6_ProgressIsFrame ==
    [][pc = "progress" =>
          /\ pc' = "reset"
          /\ UNCHANGED <<batch, total_inserted, current_time, cursor, table,
                         row_count>>]_vars

\* C7: each delivered batch is committed right after its insert and before
\* another reading is generated; the rows generated and not yet committed
\* never exceed batch_size; a failure or termination keeps every committed
\* batch and loses at most one batch.
C7_CommitPerBatch ==
    /\ [](generated - row_count <= args.batch_size)
    /\ [][/\ cursor # <<>> =>
                /\ cursor' = <<>>
                /\ table' = Append(table, cursor) \/ pc' \in Failed
          /\ generated' # generated =>
                /\ cursor = <<>>
                /\ row_count = generated - Len(batch)
          /\ Len(table') >= Len(table)
          /\ SubSeq(table', 1, Len(table)) = table
          /\ pc' \in Failed =>
                /\ table' = table
                /\ generated - row_count' <= args.batch_size]_vars

\* A run terminated with committed batches in the sink and rows lost.
C7_Witness ==
    /\ pc = "terminated"
    /\ Len(table) >= 2
    /\ generated - row_count = args.batch_size
    /\ args.batch_size >= 2

\* C8: with no meters nothing is generated, nothing is inserted or
\* committed, total_inserted stays 0 and the loop raises nothing.
C8_NoMeters ==
    args.meters = 0 =>
        /\ generated = 0
        /\ batch = <<>>
        /\ cursor = <<>>
        /\ table = <<>>
        /\ row_count = 0
        /\ total_inserted = 0
        /\ pc \in {"while", "for", "rest", "done"}

C8_Witness ==
    /\ args.meters = 0
    /\ args.days = 1
    /\ pc = "done"
    /\ timestamps = 289

\* The hours of the three bands of the table of section 4.1.
PeakHours == (6..9) \cup (18..22)
NightHours == {23} \cup (0..5)
DaytimeHours == 10..17

\* C9: for every hour 0..23 exactly one band applies and it is the one
\* generate_reading selects; the power of the returned reading lies in that
\* band's range and is non-negative.
C9_Bands ==
    /\ \A h \in 0..23 :
          /\ Cardinality({b \in {"peak", "night", "daytime"} :
                 \/ b = "peak" /\ h \in PeakHours
                 \/ b = "night" /\ h \in NightHours
                 \/ b = "daytime" /\ h \in DaytimeHours}) = 1
          /\ Band(h) = "peak" <=> h \in PeakHours
          /\ Band(h) = "night" <=> h \in NightHours
          /\ Band(h) = "daytime" <=> h \in DaytimeHours
    /\ pc = "returned" =>
          LET h == Hour(reading.timestamp)
          IN  /\ reading.timestamp = current_time
              /\ h \in PeakHours => reading.power \in 1500..3000
              /\ h \in NightHours => reading.power \in 200..500
              /\ h \in DaytimeHours => reading.power \in 800..1500
              /\ reading.power >= 0

\* A reading returned for 05:59 at the top of the night band.
C9_Witness ==
    /\ pc = "returned"
    /\ Hour(reading.timestamp) = 5
    /\ reading.timestamp % 60 = 59
    /\ reading.power = 500

\* The positions of the generation loop (lines 142-171).
LoopPcs == {"while", "for", "gen", "insert", "commit", "count", "progress", "reset"}

\* C10 as stated: at every point of the loop generated = total_inserted +
\* len(batch) (a delivered batch counted once), total_inserted is the number
\* of committed rows, the batch is below batch_size before a reading is
\* generated; on completion everything generated is inserted.
C10_AsStated ==
    /\ pc \in LoopPcs =>
          /\ generated = total_inserted
                 + (IF pc \in {"progress", "reset"} THEN 0 ELSE Len(batch))
          /\ total_inserted = row_count
          /\ pc = "gen" => Len(batch) < args.batch_size
    /\ pc = "done" =>
          /\ total_inserted = generated
          /\ row_count = generated
          /\ cursor = <<>>

\* C10 amended: as stated, except that between conn.commit() and the
\* following total_inserted += len(batch) the committed rows are ahead of
\* total_inserted by len(batch).
C10_Accounting ==
    /\ generated = total_inserted
           + (IF pc \in {"progress", "reset", "ZeroDivisionError", "done"}
              THEN 0 ELSE Len(batch))
    /\ row_count = total_inserted
           + (IF pc \in {"count", "rest_count"} THEN Len(batch) ELSE 0)
    /\ pc = "gen" => Len(batch) < args.batch_size
    /\ pc = "done" =>
          /\ total_inserted = generated
          /\ row_count = generated
          /\ cursor = <<>>

\* Between the commit and the increment of an in-loop delivery, after
\* earlier deliveries.
C10_Witness ==
    /\ pc = "count"
    /\ total_inserted > 0
    /\ row_count = total_inserted + args.batch_size
    /\ generated = row_count

====
